---- MODULE Spec2Model ----
(***************************************************************************)
(* dpp-mysql: the serialization engine of src/database.cpp.                *)
(*                                                                         *)
(* Application threads call db::query (blocking), db::query_callback       *)
(* (queued) and db::transaction.  One detached "sql/coro" thread, started  *)
(* by db::init, drains sql_query_queue and runs the stored                 *)
(* transaction_function.  Every access to a shared variable is one step.   *)
(***************************************************************************)
EXTENDS Integers, Sequences, FiniteSets, TLC

\* ---- bounds of the model ----
\* total number of entries application threads push with query_callback
MaxAsync == 2
\* total number of blocking db::query calls made by application threads
MaxSync == 1
\* total number of db::transaction calls
MaxTx == 2
\* number of blocking writes a transaction closure may issue
MaxWrites == 2

\* total number of calls made in the executor's specification
MaxExec == 3
\* largest number of parameters a call passes
MaxParams == 1
\* how often the server drops the connection
MaxDrops == 1

\* total number of db::query calls with a lifetime
MaxCached == 3
\* the clock runs from 0 to MaxTime
MaxTime == 2
\* the largest lifetime a call passes
MaxLifetime == 1
\* how often the rows on the server change
MaxData == 1

\* ---- threads ----
AppThreads == {"t1", "t2"}
Worker == "sql/coro"
Threads == AppThreads \cup {Worker}
NoThread == "nobody"

\* ---- values ----
\* an empty std::function<void()> (database.cpp:104)
NoThunk == [id |-> 0, closure |-> FALSE]
\* a default-constructed cached_query_results (database.cpp:249)
NoEntry == [format |-> "", owner |-> NoThread, n |-> 0, callback |-> FALSE]
UserEntries == {<<p, n>> : p \in AppThreads, n \in 1..MaxAsync}
\* the callbacks: of the user entries, of the sentinel of transaction call k
\* (database.cpp:352), and the completion callback passed to call k (database.h:326)
Callbacks == UserEntries \cup {<<"tx", k>> : k \in 1..MaxTx}
                         \cup {<<"done", k>> : k \in 1..MaxTx}

\* the SQL texts of the executor's specification: a statement with one
\* placeholder, a statement that yields rows, and a text the server rejects
Formats == {"INSERT ?", "SELECT", "BAD"}
\* mysql_error's text that database.cpp:376 compares with
Lost == "Lost connection to MySQL server during query"
NoCall == [op |-> "none", format |-> "", n |-> 0]
\* a default-constructed resultset (database.cpp:421, database.h:44-59)
NoRet == [done |-> FALSE, rows |-> 0, error |-> "", affected_rows |-> 0,
          failure |-> "none", raised |-> FALSE]
\* the MYSQL_STMT handles mysql_stmt_init returns (database.cpp:461): the k-th
\* one made for a text
Handles == Formats \X (1..MaxExec)
\* parameter_type (database.h:146): the alternative a variant holds, and its value
ParamValues == {[type |-> "float", value |-> 1], [type |-> "int32_t", value |-> 1],
                [type |-> "int32_t", value |-> 2]}
\* paramlist (database.h:152)
ParamLists == UNION {[1..n -> ParamValues] : n \in 0..MaxParams}
\* cached_query_results (database.cpp:124-128) as database.cpp:393 builds them:
\* one text with every parameter list, a second text with one of the lists
Keys == {k \in [format : {"SELECT a", "SELECT b"}, parameters : ParamLists] :
            k.format = "SELECT a" \/ k.parameters = <<[type |-> "int32_t", value |-> 1]>>}
NoKey == [format |-> "", parameters |-> <<>>]
\* the rows of a result set that has none (database.cpp:421)
NoRows == -1
\* cached_query_res.end()
NoNode == [key |-> NoKey, results |-> 0, expiry |-> 0]
\* the locals of a thread that is in no call with a lifetime
NoCachedCall == [key |-> NoKey, lifetime |-> 0, now |-> 0, f |-> NoNode,
                 results |-> 0, runs |-> 0, raced |-> FALSE, prev |-> NoNode]
NoCachedRet == [done |-> FALSE, results |-> 0, runs |-> 0, hit |-> FALSE]

VARIABLES
    pc,                      \* position of every thread
    transaction_in_progress, \* database.cpp:103
    transaction_function,    \* database.cpp:104
    holds_transaction_lock,  \* database.cpp:105, thread_local
    sql_query_queue,         \* database.cpp:134
    db_mutex,                \* database.cpp:81, its owner
    qr,                      \* database.cpp:249, the entry the worker dequeued
    ctx,                     \* who called db::query on the worker: "entry" | "closure"
    arg,                     \* the thunk a db::transaction call is about to store
    running,                 \* the thunk the worker is executing
    txlog,                   \* what the running wrapper did so far
    outcome,                 \* how the closure of the running wrapper ended
    writes,                  \* writes the closure of the running wrapper issued
    srvOpen,                 \* server: a transaction is open on the connection
    srvPending,              \* server: closure writes inside the open transaction
    srvVisible,              \* server: closure writes that are committed
    nSent,                   \* entries pushed so far, per application thread
    nSync,                   \* blocking calls made so far
    nCalls,                  \* db::transaction calls made so far
    txStatus,                \* per call: "none" | "conflict" | "accepted" | "returned"
    txBefore,                \* per call: nSent when the call pushed its sentinel
    ran,                     \* per call: how often the worker started its wrapper
    finished,                \* per call: how often its wrapper reached its end
    executed,                \* per queue entry: calls of db::query for it
    called,                  \* per callback: invocations
    query_queue_mtx,         \* database.cpp:135, its owner
    cached_queries,          \* database.cpp:110, its entries
    rows_affected,           \* database.cpp:96
    stmt_closed,             \* per handle: calls of mysql_stmt_close
    connection,              \* database.cpp:75: "up" | "down" | "closed"
    query_total,             \* database.cpp:91
    last_error,              \* database.cpp:86: "" | "error" | Lost
    call,                    \* per thread: the call it is in
    ret,                     \* per thread: what its last call gave back
    prepares,                \* per format: calls of mysql_stmt_prepare
    executes,                \* per format: calls of mysql_stmt_execute
    okCalls,                 \* per format: db::query calls that met no failure
    failedCalls,             \* per format: db::query calls that met a failure
    stable,                  \* the connection was never lost, closed or replaced
    reconnects,              \* calls of unsafe_connect made by db::query
    nExec,                   \* calls made so far
    drops,                   \* times the server dropped the connection
    cached_query_res,        \* database.cpp:184, its nodes
    now,                     \* what dpp::utility::time_f() returns
    data,                    \* server: what the rows of a query are at present
    ccall,                   \* per thread: the locals of its db::query with a lifetime
    cret,                    \* per thread: what its last such call gave back
    nCached,                 \* such calls made so far
    stored                   \* the node the latest such call inserted, until the next call

vars == <<pc, transaction_in_progress, transaction_function, holds_transaction_lock,
          sql_query_queue, db_mutex, qr, ctx, arg, running, txlog, outcome, writes,
          srvOpen, srvPending, srvVisible, nSent, nSync, nCalls, txStatus,
          txBefore, ran, finished, executed, called, query_queue_mtx,
          cached_queries, rows_affected, stmt_closed,
          connection, query_total, last_error, call, ret,
          prepares, executes, okCalls, failedCalls, stable, reconnects, nExec, drops,
          cached_query_res, now, data, ccall, cret, nCached, stored>>

\* the state of the executor below the lock of database.cpp:420
executor_vars == <<cached_queries, rows_affected, stmt_closed,
                   connection, query_total, last_error, call, ret,
                   prepares, executes, okCalls, failedCalls, stable, reconnects,
                   nExec, drops>>

\* the state of db::query(format, parameters, lifetime)
result_cache_vars == <<cached_query_res, now, data, ccall, cret, nCached, stored>>

\* what the steps written with the queue as one atomic object leave alone
elsewhere == <<query_queue_mtx, executor_vars, result_cache_vars>>

\* the state of the queue and of db::transaction
engine_vars == <<transaction_in_progress, transaction_function, holds_transaction_lock,
                 sql_query_queue, qr, ctx, arg, running, txlog, outcome, writes,
                 srvOpen, srvPending, srvVisible, nSent, nSync, nCalls, txStatus,
                 txBefore, ran, finished, executed, called, query_queue_mtx>>

RECURSIVE SumOver(_, _)
SumOver(f, S) ==
    IF S = {} THEN 0
    ELSE LET x == CHOOSE y \in S : TRUE IN f[x] + SumOver(f, S \ {x})

Init ==
    /\ pc = [t \in Threads |-> IF t = Worker THEN "wait" ELSE "idle"]
    /\ transaction_in_progress = FALSE
    /\ transaction_function = NoThunk
    /\ holds_transaction_lock = [t \in Threads |-> FALSE]
    /\ sql_query_queue = <<>>
    /\ db_mutex = NoThread
    /\ qr = NoEntry
    /\ ctx = "entry"
    /\ arg = [t \in AppThreads |-> NoThunk]
    /\ running = NoThunk
    /\ txlog = <<>>
    /\ outcome = "none"
    /\ writes = 0
    /\ srvOpen = FALSE
    /\ srvPending = 0
    /\ srvVisible = 0
    /\ nSent = [t \in AppThreads |-> 0]
    /\ nSync = 0
    /\ nCalls = 0
    /\ txStatus = [k \in 1..MaxTx |-> "none"]
    /\ txBefore = [k \in 1..MaxTx |-> [t \in AppThreads |-> 0]]
    /\ ran = [k \in 1..MaxTx |-> 0]
    /\ finished = [k \in 1..MaxTx |-> 0]
    /\ executed = [e \in UserEntries |-> 0]
    /\ called = [e \in Callbacks |-> 0]
    /\ query_queue_mtx = NoThread
    /\ cached_queries = {}
    /\ rows_affected = 0
    /\ stmt_closed = [h \in Handles |-> 0]
    /\ connection = "up"
    /\ query_total = 0
    /\ last_error = ""
    /\ call = [t \in Threads |-> NoCall]
    /\ ret = [t \in Threads |-> NoRet]
    /\ prepares = [f \in Formats |-> 0]
    /\ executes = [f \in Formats |-> 0]
    /\ okCalls = [f \in Formats |-> 0]
    /\ failedCalls = [f \in Formats |-> 0]
    /\ stable = TRUE
    /\ reconnects = 0
    /\ nExec = 0
    /\ drops = 0
    /\ cached_query_res = {}
    /\ now = 0
    /\ data = 0
    /\ ccall = [t \in Threads |-> NoCachedCall]
    /\ cret = [t \in Threads |-> NoCachedRet]
    /\ nCached = 0
    /\ stored = NoNode


\* ---- the executor: db::query(format, parameters), database.cpp:406 ----

\* the condition that ends the polling loop of database.cpp:412
GateOpen(t) == ~(transaction_in_progress /\ ~holds_transaction_lock[t])

\* database.cpp:412-414: leave the wait loop
query_gate(t) ==
    /\ pc[t] = "gate"
    /\ GateOpen(t)
    /\ pc' = [pc EXCEPT ![t] = "lock"]
    /\ UNCHANGED <<transaction_in_progress, transaction_function, holds_transaction_lock,
                   sql_query_queue, db_mutex, qr, ctx, arg, running, txlog, outcome,
                   writes, srvOpen, srvPending, srvVisible, nSent, nSync, nCalls,
                   txStatus, txBefore, ran, finished, executed, called>>
    /\ UNCHANGED elsewhere

\* database.cpp:420: std::lock_guard<std::mutex> db_lock(db_mutex)
query_lock(t) ==
    /\ pc[t] = "lock"
    /\ db_mutex = NoThread
    /\ db_mutex' = t
    /\ pc' = [pc EXCEPT ![t] = "exec"]
    /\ UNCHANGED <<transaction_in_progress, transaction_function, holds_transaction_lock,
                   sql_query_queue, qr, ctx, arg, running, txlog, outcome,
                   writes, srvOpen, srvPending, srvVisible, nSent, nSync, nCalls,
                   txStatus, txBefore, ran, finished, executed, called>>
    /\ UNCHANGED elsewhere

\* where db::query returns to
ReturnTo(t) ==
    IF t # Worker THEN "idle"
    ELSE IF ctx = "entry" THEN "callback" ELSE "closure"

\* database.cpp:421-617: the statement runs on the connection, the lock guard
\* is released and the call returns.  A statement of a closure is a write: the
\* server keeps it in the open transaction, or commits it at once when no
\* transaction is open (autocommit).
query_exec(t) ==
    /\ pc[t] = "exec"
    /\ db_mutex = t
    /\ db_mutex' = NoThread
    /\ pc' = [pc EXCEPT ![t] = ReturnTo(t)]
    /\ IF t = Worker /\ ctx = "entry"
       THEN executed' = [executed EXCEPT ![<<qr.owner, qr.n>>] = @ + 1]
       ELSE UNCHANGED executed
    /\ IF t = Worker /\ ctx = "closure"
       THEN /\ writes' = writes + 1
            /\ srvPending' = IF srvOpen THEN srvPending + 1 ELSE srvPending
            /\ srvVisible' = IF srvOpen THEN srvVisible ELSE srvVisible + 1
       ELSE UNCHANGED <<writes, srvPending, srvVisible>>
    /\ UNCHANGED <<transaction_in_progress, transaction_function, holds_transaction_lock,
                   sql_query_queue, qr, ctx, arg, running, txlog, outcome,
                   srvOpen, nSent, nSync, nCalls,
                   txStatus, txBefore, ran, finished, called>>
    /\ UNCHANGED elsewhere

\* an application thread calls the blocking db::query
call_query(t) ==
    /\ t \in AppThreads
    /\ pc[t] = "idle"
    /\ nSync < MaxSync
    /\ nSync' = nSync + 1
    /\ pc' = [pc EXCEPT ![t] = "gate"]
    /\ UNCHANGED <<transaction_in_progress, transaction_function, holds_transaction_lock,
                   sql_query_queue, db_mutex, qr, ctx, arg, running, txlog, outcome,
                   writes, srvOpen, srvPending, srvVisible, nSent, nCalls,
                   txStatus, txBefore, ran, finished, executed, called>>
    /\ UNCHANGED elsewhere

\* ---- the async queue ----

\* database.cpp:227-228: sql_query_queue.emplace under query_queue_mtx
Push(q, e) == Append(q, e)

\* C9's mutant: the worker takes the newest entry
FrontNewest(q) == q[Len(q)]

\* database.cpp:258-259: front() and pop() under query_queue_mtx
Front(q) == Head(q)
Pop(q) == Tail(q)

\* database.cpp:225-231: db::query_callback(format, parameters, cb), format not empty
query_callback(t) ==
    /\ t \in AppThreads
    /\ pc[t] = "idle"
    /\ SumOver(nSent, AppThreads) < MaxAsync
    /\ nSent' = [nSent EXCEPT ![t] = @ + 1]
    /\ sql_query_queue' = Push(sql_query_queue,
           [format |-> "sql", owner |-> t, n |-> nSent[t] + 1, callback |-> TRUE])
    /\ UNCHANGED <<pc, transaction_in_progress, transaction_function,
                   holds_transaction_lock, db_mutex, qr, ctx, arg, running, txlog,
                   outcome, writes, srvOpen, srvPending, srvVisible, nSync, nCalls,
                   txStatus, txBefore, ran, finished, executed, called>>
    /\ UNCHANGED elsewhere

\* database.cpp:249-262: wait for an entry, dequeue it, call db::query unless
\* its format is empty
worker_pop ==
    /\ pc[Worker] = "wait"
    /\ sql_query_queue # <<>>
    /\ qr' = Front(sql_query_queue)
    /\ sql_query_queue' = Pop(sql_query_queue)
    /\ ctx' = "entry"
    /\ pc' = [pc EXCEPT ![Worker] = IF qr'.format # "" THEN "gate" ELSE "check"]
    /\ UNCHANGED <<transaction_in_progress, transaction_function, holds_transaction_lock,
                   db_mutex, arg, running, txlog, outcome,
                   writes, srvOpen, srvPending, srvVisible, nSent, nSync, nCalls,
                   txStatus, txBefore, ran, finished, executed, called>>
    /\ UNCHANGED elsewhere

\* database.cpp:263-265: if (qr.callback) qr.callback(results)
worker_callback ==
    /\ pc[Worker] = "callback"
    /\ called' = IF qr.callback
                 THEN [called EXCEPT ![<<qr.owner, qr.n>>] = @ + 1]
                 ELSE called
    /\ pc' = [pc EXCEPT ![Worker] = "check"]
    /\ UNCHANGED <<transaction_in_progress, transaction_function, holds_transaction_lock,
                   sql_query_queue, db_mutex, qr, ctx, arg, running, txlog, outcome,
                   writes, srvOpen, srvPending, srvVisible, nSent, nSync, nCalls,
                   txStatus, txBefore, ran, finished, executed>>
    /\ UNCHANGED elsewhere


\* ---- db::transaction(closure), database.cpp:313 ----

\* C5's mutant: the test of the flag is skipped
ConflictNeverReported(flag) == FALSE

\* database.cpp:315: if (transaction_in_progress) throw
Conflict(flag) == flag

\* database.cpp:313-317: the call and its test of the flag.  closure says
\* whether the std::function passed is non-empty.  The caller also passes a
\* completion callback (database.h:326), callback <<"done", k>> of call k, for
\* which the definition has no parameter.
transaction_check(t, closure) ==
    /\ t \in AppThreads
    /\ pc[t] = "idle"
    /\ nCalls < MaxTx
    /\ nCalls' = nCalls + 1
    /\ IF Conflict(transaction_in_progress)
       THEN /\ txStatus' = [txStatus EXCEPT ![nCalls + 1] = "conflict"]
            /\ UNCHANGED <<pc, arg>>
       ELSE /\ txStatus' = [txStatus EXCEPT ![nCalls + 1] = "accepted"]
            /\ arg' = [arg EXCEPT ![t] = [id |-> nCalls + 1, closure |-> closure]]
            /\ pc' = [pc EXCEPT ![t] = "t_store"]
    /\ UNCHANGED <<transaction_in_progress, transaction_function, holds_transaction_lock,
                   sql_query_queue, db_mutex, qr, ctx, running, txlog, outcome,
                   writes, srvOpen, srvPending, srvVisible, nSent, nSync,
                   txBefore, ran, finished, executed, called>>
    /\ UNCHANGED elsewhere

\* database.cpp:323-343: transaction_function = [closure]() {...}
transaction_store(t) ==
    /\ pc[t] = "t_store"
    /\ transaction_function' = arg[t]
    /\ pc' = [pc EXCEPT ![t] = "t_set"]
    /\ UNCHANGED <<transaction_in_progress, holds_transaction_lock,
                   sql_query_queue, db_mutex, qr, ctx, arg, running, txlog, outcome,
                   writes, srvOpen, srvPending, srvVisible, nSent, nSync, nCalls,
                   txStatus, txBefore, ran, finished, executed, called>>
    /\ UNCHANGED elsewhere

\* database.cpp:351: transaction_in_progress = true
transaction_set(t) ==
    /\ pc[t] = "t_set"
    /\ transaction_in_progress' = TRUE
    /\ pc' = [pc EXCEPT ![t] = "t_push"]
    /\ UNCHANGED <<transaction_function, holds_transaction_lock,
                   sql_query_queue, db_mutex, qr, ctx, arg, running, txlog, outcome,
                   writes, srvOpen, srvPending, srvVisible, nSent, nSync, nCalls,
                   txStatus, txBefore, ran, finished, executed, called>>
    /\ UNCHANGED elsewhere

\* database.cpp:352: query_callback("", {}, [](auto){}), then the call returns
transaction_push(t) ==
    /\ pc[t] = "t_push"
    /\ sql_query_queue' = Push(sql_query_queue,
           [format |-> "", owner |-> "tx", n |-> arg[t].id, callback |-> TRUE])
    /\ txBefore' = [txBefore EXCEPT ![arg[t].id] = nSent]
    /\ txStatus' = [txStatus EXCEPT ![arg[t].id] = "returned"]
    /\ arg' = [arg EXCEPT ![t] = NoThunk]
    /\ pc' = [pc EXCEPT ![t] = "idle"]
    /\ UNCHANGED <<transaction_in_progress, transaction_function, holds_transaction_lock,
                   db_mutex, qr, ctx, running, txlog, outcome,
                   writes, srvOpen, srvPending, srvVisible, nSent, nSync, nCalls,
                   ran, finished, executed, called>>
    /\ UNCHANGED elsewhere

\* ---- the worker runs the stored wrapper, database.cpp:275-280 ----

\* database.cpp:275-277: if (transaction_in_progress && transaction_function)
\* { holds_transaction_lock = true; transaction_function(); ...
worker_check ==
    /\ pc[Worker] = "check"
    /\ IF transaction_in_progress /\ transaction_function # NoThunk
       THEN /\ holds_transaction_lock' = [holds_transaction_lock EXCEPT ![Worker] = TRUE]
            /\ running' = transaction_function
            /\ ran' = [ran EXCEPT ![transaction_function.id] = @ + 1]
            /\ pc' = [pc EXCEPT ![Worker] = "start_lock"]
       ELSE /\ pc' = [pc EXCEPT ![Worker] = "wait"]
            /\ UNCHANGED <<holds_transaction_lock, running, ran>>
    /\ UNCHANGED <<transaction_in_progress, transaction_function,
                   sql_query_queue, db_mutex, qr, ctx, arg, txlog, outcome,
                   writes, srvOpen, srvPending, srvVisible, nSent, nSync, nCalls,
                   txStatus, txBefore, finished, executed, called>>
    /\ UNCHANGED elsewhere

\* database.cpp:297: the lock guard of raw_query, for the statement that opens
\* and the statement that ends the transaction
raw_query_lock ==
    /\ pc[Worker] \in {"start_lock", "end_lock"}
    /\ db_mutex = NoThread
    /\ db_mutex' = Worker
    /\ pc' = [pc EXCEPT ![Worker] = IF pc[Worker] = "start_lock" THEN "start_exec"
                                                                  ELSE "end_exec"]
    /\ UNCHANGED <<transaction_in_progress, transaction_function, holds_transaction_lock,
                   sql_query_queue, qr, ctx, arg, running, txlog, outcome,
                   writes, srvOpen, srvPending, srvVisible, nSent, nSync, nCalls,
                   txStatus, txBefore, ran, finished, executed, called>>
    /\ UNCHANGED elsewhere

\* database.cpp:325, 301-303, 298: start_transaction(); mysql_real_query may
\* fail (ok = FALSE) and the wrapper ignores what start_transaction returns
start_transaction(ok) ==
    /\ pc[Worker] = "start_exec"
    /\ db_mutex = Worker
    /\ db_mutex' = NoThread
    /\ txlog' = Append(txlog, "START TRANSACTION")
    /\ srvOpen' = IF ok THEN TRUE ELSE srvOpen
    /\ pc' = [pc EXCEPT ![Worker] = "invoke"]
    /\ UNCHANGED <<transaction_in_progress, transaction_function, holds_transaction_lock,
                   sql_query_queue, qr, ctx, arg, running, outcome,
                   writes, srvPending, srvVisible, nSent, nSync, nCalls,
                   txStatus, txBefore, ran, finished, executed, called>>
    /\ UNCHANGED elsewhere

\* database.cpp:326-329: if (closure) should_commit = closure().  closure is a
\* capture of the lambda stored in transaction_function: when a db::transaction
\* call has assigned transaction_function since the worker invoked it
\* (database.cpp:323 against 277), the lambda that is running was destroyed and
\* reading its capture is undefined: the stale closure is used, or the process dies.
wrapper_invoke ==
    /\ pc[Worker] = "invoke"
    /\ \E fate \in (IF transaction_function # running THEN {"run", "crash"} ELSE {"run"}) :
           IF fate = "crash"
           THEN /\ pc' = [t \in Threads |-> "crashed"]
                /\ UNCHANGED <<txlog, outcome>>
           ELSE IF running.closure
           THEN /\ txlog' = Append(txlog, "closure")
                /\ pc' = [pc EXCEPT ![Worker] = "closure"]
                /\ UNCHANGED outcome
           ELSE /\ outcome' = "absent"
                /\ pc' = [pc EXCEPT ![Worker] = "end_lock"]
                /\ UNCHANGED txlog
    /\ UNCHANGED <<transaction_in_progress, transaction_function, holds_transaction_lock,
                   sql_query_queue, db_mutex, qr, ctx, arg, running,
                   writes, srvOpen, srvPending, srvVisible, nSent, nSync, nCalls,
                   txStatus, txBefore, ran, finished, executed, called>>
    /\ UNCHANGED elsewhere

\* the closure calls the blocking db::query (database.h:316)
closure_query ==
    /\ pc[Worker] = "closure"
    /\ writes < MaxWrites
    /\ ctx' = "closure"
    /\ pc' = [pc EXCEPT ![Worker] = "gate"]
    /\ UNCHANGED <<transaction_in_progress, transaction_function, holds_transaction_lock,
                   sql_query_queue, db_mutex, qr, arg, running, txlog, outcome,
                   writes, srvOpen, srvPending, srvVisible, nSent, nSync, nCalls,
                   txStatus, txBefore, ran, finished, executed, called>>
    /\ UNCHANGED elsewhere

\* the closure ends: it returns true or false, or throws (database.cpp:328, 336)
closure_end(how) ==
    /\ pc[Worker] = "closure"
    /\ outcome' = how
    /\ pc' = [pc EXCEPT ![Worker] = "end_lock"]
    /\ UNCHANGED <<transaction_in_progress, transaction_function, holds_transaction_lock,
                   sql_query_queue, db_mutex, qr, ctx, arg, running, txlog,
                   writes, srvOpen, srvPending, srvVisible, nSent, nSync, nCalls,
                   txStatus, txBefore, ran, finished, executed, called>>
    /\ UNCHANGED elsewhere

\* the closure calls db::transaction (database.cpp:313-317): the test of the
\* flag, and the std::runtime_error of 316 that leaves the call, and the
\* closure with it, when the flag is set.  Only a call that is accepted takes
\* a number.
closure_transaction ==
    /\ pc[Worker] = "closure"
    /\ IF Conflict(transaction_in_progress)
       THEN /\ pc' = [pc EXCEPT ![Worker] = "thrown"]
            /\ UNCHANGED <<nCalls, txStatus, arg>>
       ELSE /\ nCalls < MaxTx
            /\ nCalls' = nCalls + 1
            /\ txStatus' = [txStatus EXCEPT ![nCalls + 1] = "accepted"]
            /\ arg' = [arg EXCEPT ![Worker] = [id |-> nCalls + 1, closure |-> FALSE]]
            /\ pc' = [pc EXCEPT ![Worker] = "t_store"]
    /\ UNCHANGED <<transaction_in_progress, transaction_function, holds_transaction_lock,
                   sql_query_queue, db_mutex, qr, ctx, running, txlog, outcome,
                   writes, srvOpen, srvPending, srvVisible, nSent, nSync,
                   txBefore, ran, finished, executed, called>>
    /\ UNCHANGED elsewhere

\* database.cpp:336: catch (...) of the wrapper takes the exception that left
\* the closure
wrapper_catch ==
    /\ pc[Worker] = "thrown"
    /\ outcome' = "throw"
    /\ pc' = [pc EXCEPT ![Worker] = "end_lock"]
    /\ UNCHANGED <<transaction_in_progress, transaction_function, holds_transaction_lock,
                   sql_query_queue, db_mutex, qr, ctx, arg, running, txlog,
                   writes, srvOpen, srvPending, srvVisible, nSent, nSync, nCalls,
                   txStatus, txBefore, ran, finished, executed, called>>
    /\ UNCHANGED elsewhere

\* C6's mutant: the catch block commits
DecisionCommitOnThrow(how) == IF how \in {"true", "throw"} THEN "COMMIT" ELSE "ROLLBACK"

\* database.cpp:330-338: commit() if should_commit, rollback() otherwise and
\* in the catch block
Decision(how) == IF how = "true" THEN "COMMIT" ELSE "ROLLBACK"

\* database.cpp:305-311, 298: commit() or rollback(); the statement may fail
end_transaction(ok) ==
    /\ pc[Worker] = "end_exec"
    /\ db_mutex = Worker
    /\ db_mutex' = NoThread
    /\ txlog' = Append(txlog, Decision(outcome))
    /\ IF ok /\ srvOpen
       THEN /\ srvOpen' = FALSE
            /\ srvPending' = 0
            /\ srvVisible' = IF Decision(outcome) = "COMMIT"
                             THEN srvVisible + srvPending ELSE srvVisible
       ELSE UNCHANGED <<srvOpen, srvPending, srvVisible>>
    /\ pc' = [pc EXCEPT ![Worker] = "clear"]
    /\ UNCHANGED <<transaction_in_progress, transaction_function, holds_transaction_lock,
                   sql_query_queue, qr, ctx, arg, running, outcome,
                   writes, nSent, nSync, nCalls,
                   txStatus, txBefore, ran, finished, executed, called>>
    /\ UNCHANGED elsewhere

\* database.cpp:342: transaction_in_progress = false, the end of the wrapper
wrapper_clear ==
    /\ pc[Worker] = "clear"
    /\ transaction_in_progress' = FALSE
    /\ finished' = [finished EXCEPT ![running.id] = @ + 1]
    /\ pc' = [pc EXCEPT ![Worker] = "reset"]
    /\ UNCHANGED <<transaction_function, holds_transaction_lock,
                   sql_query_queue, db_mutex, qr, ctx, arg, running, txlog, outcome,
                   writes, srvOpen, srvPending, srvVisible, nSent, nSync, nCalls,
                   txStatus, txBefore, ran, executed, called>>
    /\ UNCHANGED elsewhere

\* C25's mutant: the flag is left as it is when the wrapper has returned
FlagKept(h) == h

\* database.cpp:278: holds_transaction_lock = false, on the worker's thread
FlagCleared(h) == [h EXCEPT ![Worker] = FALSE]

\* database.cpp:278-279: holds_transaction_lock = false; transaction_function = {}
worker_reset ==
    /\ pc[Worker] = "reset"
    /\ holds_transaction_lock' = FlagCleared(holds_transaction_lock)
    /\ transaction_function' = NoThunk
    /\ running' = NoThunk
    /\ txlog' = <<>>
    /\ outcome' = "none"
    /\ writes' = 0
    /\ srvPending' = 0
    /\ srvVisible' = 0
    /\ pc' = [pc EXCEPT ![Worker] = "wait"]
    /\ UNCHANGED <<transaction_in_progress, sql_query_queue, db_mutex, qr, ctx, arg,
                   srvOpen, nSent, nSync, nCalls,
                   txStatus, txBefore, ran, finished, executed, called>>
    /\ UNCHANGED elsewhere

\* ---- the system ----

\* a thread goes on with the call it is in
Continue(t) ==
    \/ query_gate(t)
    \/ query_lock(t)
    \/ query_exec(t)
    \/ transaction_store(t)
    \/ transaction_set(t)
    \/ transaction_push(t)

\* the worker runs a stored wrapper, database.cpp:275-280
WrapperNext ==
    \/ worker_check
    \/ raw_query_lock
    \/ \E ok \in BOOLEAN : start_transaction(ok)
    \/ wrapper_invoke
    \/ closure_query
    \/ closure_transaction
    \/ wrapper_catch
    \/ \E how \in {"true", "false", "throw"} : closure_end(how)
    \/ \E ok \in BOOLEAN : end_transaction(ok)
    \/ wrapper_clear
    \/ worker_reset

\* the worker loop of database.cpp:246-282
WorkerNext ==
    \/ worker_pop
    \/ worker_callback
    \/ WrapperNext

\* an application thread makes a call
Call(t) ==
    \/ call_query(t)
    \/ query_callback(t)
    \/ \E closure \in BOOLEAN : transaction_check(t, closure)

Next ==
    \/ \E t \in AppThreads : Call(t)
    \/ \E t \in Threads : Continue(t)
    \/ WorkerNext

Spec == Init /\ [][Next]_vars

\* The application as database.h:316 asks for it: one thread alone starts
\* transactions, so that no two db::transaction calls overlap.
TxCaller == "t1"

SerialCall(t) ==
    \/ call_query(t)
    \/ query_callback(t)
    \/ \E closure \in BOOLEAN : t = TxCaller /\ transaction_check(t, closure)

SerialNext ==
    \/ \E t \in AppThreads : SerialCall(t)
    \/ \E t \in Threads : Continue(t)
    \/ WorkerNext

SerialSpec == Init /\ [][SerialNext]_vars

\* Scheduling: every thread that can take a step eventually takes one.  Nothing
\* obliges the application to make a further call.
FairSerialSpec ==
    /\ SerialSpec
    /\ \A t \in Threads : WF_vars(Continue(t))
    /\ WF_vars(WorkerNext)


\* ---- the queue under its mutex, database.cpp:225-231 and 249-260 ----

\* C11's mutant: the worker still owns the queue lock when it leaves the block
HeldAfterPop(m) == m

\* database.cpp:260: the block that declares queue_lock ends after pop()
ReleasedAfterPop(m) == NoThread

\* database.cpp:225: an application thread calls db::query_callback
emplace_call(t) ==
    /\ t \in AppThreads
    /\ pc[t] = "idle"
    /\ SumOver(nSent, AppThreads)
         + Cardinality({u \in AppThreads : pc[u] \in {"q_lock", "q_emplace"}}) < MaxAsync
    /\ pc' = [pc EXCEPT ![t] = "q_lock"]
    /\ UNCHANGED <<transaction_in_progress, transaction_function, holds_transaction_lock,
                   sql_query_queue, db_mutex, qr, ctx, arg, running, txlog, outcome,
                   writes, srvOpen, srvPending, srvVisible, nSent, nSync, nCalls,
                   txStatus, txBefore, ran, finished, executed, called, query_queue_mtx>>
    /\ UNCHANGED <<executor_vars, result_cache_vars>>

\* database.cpp:227: std::unique_lock<std::mutex> queue_lock(query_queue_mtx),
\* in a call of the application or in the call of database.cpp:352
queue_lock(t) ==
    /\ pc[t] \in {"q_lock", "t_push"}
    /\ query_queue_mtx = NoThread
    /\ query_queue_mtx' = t
    /\ pc' = [pc EXCEPT ![t] = IF pc[t] = "q_lock" THEN "q_emplace" ELSE "t_emplace"]
    /\ UNCHANGED <<transaction_in_progress, transaction_function, holds_transaction_lock,
                   sql_query_queue, db_mutex, qr, ctx, arg, running, txlog, outcome,
                   writes, srvOpen, srvPending, srvVisible, nSent, nSync, nCalls,
                   txStatus, txBefore, ran, finished, executed, called>>
    /\ UNCHANGED <<executor_vars, result_cache_vars>>

\* database.cpp:228-230: emplace, the end of the block, notify_one and return
emplace_entry(t) ==
    /\ pc[t] = "q_emplace"
    /\ query_queue_mtx = t
    /\ nSent' = [nSent EXCEPT ![t] = @ + 1]
    /\ sql_query_queue' = Push(sql_query_queue,
           [format |-> "sql", owner |-> t, n |-> nSent[t] + 1, callback |-> TRUE])
    /\ query_queue_mtx' = NoThread
    /\ pc' = [pc EXCEPT ![t] = "idle"]
    /\ UNCHANGED <<transaction_in_progress, transaction_function,
                   holds_transaction_lock, db_mutex, qr, ctx, arg, running, txlog,
                   outcome, writes, srvOpen, srvPending, srvVisible, nSync, nCalls,
                   txStatus, txBefore, ran, finished, executed, called>>
    /\ UNCHANGED <<executor_vars, result_cache_vars>>

\* database.cpp:352, 228-230: the same for the sentinel of db::transaction
emplace_sentinel(t) ==
    /\ pc[t] = "t_emplace"
    /\ query_queue_mtx = t
    /\ sql_query_queue' = Push(sql_query_queue,
           [format |-> "", owner |-> "tx", n |-> arg[t].id, callback |-> TRUE])
    /\ txBefore' = [txBefore EXCEPT ![arg[t].id] = nSent]
    /\ txStatus' = [txStatus EXCEPT ![arg[t].id] = "returned"]
    /\ arg' = [arg EXCEPT ![t] = NoThunk]
    /\ query_queue_mtx' = NoThread
    /\ pc' = [pc EXCEPT ![t] = "idle"]
    /\ UNCHANGED <<transaction_in_progress, transaction_function, holds_transaction_lock,
                   db_mutex, qr, ctx, running, txlog, outcome,
                   writes, srvOpen, srvPending, srvVisible, nSent, nSync, nCalls,
                   ran, finished, executed, called>>
    /\ UNCHANGED <<executor_vars, result_cache_vars>>

\* database.cpp:251: the worker's std::unique_lock<std::mutex> queue_lock
worker_lock ==
    /\ pc[Worker] = "wait"
    /\ query_queue_mtx = NoThread
    /\ query_queue_mtx' = Worker
    /\ pc' = [pc EXCEPT ![Worker] = "w_wait"]
    /\ UNCHANGED <<transaction_in_progress, transaction_function, holds_transaction_lock,
                   sql_query_queue, db_mutex, qr, ctx, arg, running, txlog, outcome,
                   writes, srvOpen, srvPending, srvVisible, nSent, nSync, nCalls,
                   txStatus, txBefore, ran, finished, executed, called>>
    /\ UNCHANGED <<executor_vars, result_cache_vars>>

\* database.cpp:252-254: sql_worker_cv.wait on an empty queue gives the lock
\* up; the worker takes it again when it is woken
worker_wait ==
    /\ pc[Worker] = "w_wait"
    /\ query_queue_mtx = Worker
    /\ sql_query_queue = <<>>
    /\ query_queue_mtx' = NoThread
    /\ pc' = [pc EXCEPT ![Worker] = "wait"]
    /\ UNCHANGED <<transaction_in_progress, transaction_function, holds_transaction_lock,
                   sql_query_queue, db_mutex, qr, ctx, arg, running, txlog, outcome,
                   writes, srvOpen, srvPending, srvVisible, nSent, nSync, nCalls,
                   txStatus, txBefore, ran, finished, executed, called>>
    /\ UNCHANGED <<executor_vars, result_cache_vars>>

\* database.cpp:258-262: front(), pop(), the end of the block, and the call of
\* db::query unless the format is empty
worker_take ==
    /\ pc[Worker] = "w_wait"
    /\ query_queue_mtx = Worker
    /\ sql_query_queue # <<>>
    /\ qr' = Front(sql_query_queue)
    /\ sql_query_queue' = Pop(sql_query_queue)
    /\ ctx' = "entry"
    /\ query_queue_mtx' = ReleasedAfterPop(query_queue_mtx)
    /\ pc' = [pc EXCEPT ![Worker] = IF qr'.format # "" THEN "gate" ELSE "check"]
    /\ UNCHANGED <<transaction_in_progress, transaction_function, holds_transaction_lock,
                   db_mutex, arg, running, txlog, outcome,
                   writes, srvOpen, srvPending, srvVisible, nSent, nSync, nCalls,
                   txStatus, txBefore, ran, finished, executed, called>>
    /\ UNCHANGED <<executor_vars, result_cache_vars>>

\* an application thread makes a call; one thread alone starts transactions
QueueCall(t) ==
    \/ call_query(t)
    \/ emplace_call(t)
    \/ \E closure \in BOOLEAN : t = TxCaller /\ transaction_check(t, closure)

\* a thread goes on with the call it is in
QueueContinue(t) ==
    \/ query_gate(t)
    \/ query_lock(t)
    \/ query_exec(t)
    \/ transaction_store(t)
    \/ transaction_set(t)
    \/ queue_lock(t)
    \/ emplace_entry(t)
    \/ emplace_sentinel(t)

\* the worker loop of database.cpp:246-282
QueueWorkerNext ==
    \/ worker_lock
    \/ worker_wait
    \/ worker_take
    \/ worker_callback
    \/ WrapperNext

QueueNext ==
    \/ \E t \in AppThreads : QueueCall(t)
    \/ \E t \in Threads : QueueContinue(t)
    \/ QueueWorkerNext

\* the program with every lock and unlock of query_queue_mtx as a step
QueueSpec == Init /\ [][QueueNext]_vars

\* ---- the executor step by step, database.cpp:406-617 ----

\* mysql_stmt_param_count (database.cpp:468): the placeholders of the text
mysql_stmt_param_count(f) == IF f = "INSERT ?" THEN 1 ELSE 0

\* mysql_stmt_prepare (database.cpp:462) accepts the text
mysql_stmt_prepare(f) == f # "BAD"

\* the characters of a text
Chars(f) ==
    CASE f = "INSERT ?" -> <<"I", "N", "S", "E", "R", "T", " ", "?">>
      [] f = "SELECT" -> <<"S", "E", "L", "E", "C", "T">>
      [] OTHER -> <<"B", "A", "D">>

\* std::tolower, as dpp::lowercase applies it to every character (database.cpp:486)
Upper == <<"A", "B", "C", "D", "E", "H", "I", "L", "N", "O", "P", "R", "S", "T", "W", "X">>
Lower == <<"a", "b", "c", "d", "e", "h", "i", "l", "n", "o", "p", "r", "s", "t", "w", "x">>
tolower(c) ==
    IF \E i \in 1..Len(Upper) : Upper[i] = c
    THEN Lower[CHOOSE i \in 1..Len(Upper) : Upper[i] = c]
    ELSE c

\* C30's mutant: the text is taken as it is written
as_written(text) == text

\* dpp::lowercase (database.cpp:486)
lowercase(text) == [i \in 1..Len(text) |-> tolower(text[i])]

\* std::isspace, which dpp::trim tests with
isspace(c) == c \in {" ", "\t", "\n", "\r", "\f"}

\* dpp::trim (database.cpp:486): white space is removed at both ends
RECURSIVE ltrim(_)
ltrim(text) ==
    IF text # <<>> /\ isspace(Head(text)) THEN ltrim(Tail(text)) ELSE text
RECURSIVE rtrim(_)
rtrim(text) ==
    IF text # <<>> /\ isspace(text[Len(text)])
    THEN rtrim(SubSeq(text, 1, Len(text) - 1)) ELSE text
trim(text) == ltrim(rtrim(text))

\* dpp::utility::tokenize (database.cpp:486): the separators at the front are
\* skipped, a token runs up to the next separator
RECURSIVE tokenize(_, _)
tokenize(text, sep) ==
    LET b == IF \E i \in 1..Len(text) : text[i] # sep
             THEN CHOOSE i \in 1..Len(text) :
                      text[i] # sep /\ \A j \in 1..(i - 1) : text[j] = sep
             ELSE 0
    IN  IF b = 0 THEN <<>>
        ELSE LET e == IF \E i \in b..Len(text) : text[i] = sep
                      THEN CHOOSE i \in b..Len(text) :
                               text[i] = sep /\ \A j \in b..(i - 1) : text[j] # sep
                      ELSE Len(text) + 1
             IN  <<SubSeq(text, b, e - 1)>> \o tokenize(SubSeq(text, e, Len(text)), sep)

\* database.cpp:487: select, show, describe, explain
Keywords == {<<"s", "e", "l", "e", "c", "t">>,
             <<"s", "h", "o", "w">>,
             <<"d", "e", "s", "c", "r", "i", "b", "e">>,
             <<"e", "x", "p", "l", "a", "i", "n">>}

\* database.cpp:486-487: the first keyword is select, show, describe or explain
first_keyword(text) ==
    LET q == tokenize(trim(lowercase(text)), " ")
    IN  Len(q) > 0 /\ q[1] \in Keywords
\* cc.expects_results as database.cpp:487 computes it for each text
keyword_of == [f \in Formats |-> first_keyword(Chars(f))]
expects_results(f) == keyword_of[f]

\* C15's mutant: the lookup never finds an entry
FindNothing(cache, f) == FALSE

\* database.cpp:454-455: cached_queries.find(format) != cached_queries.end()
Find(cache, f) == \E e \in cache : e.format = f

\* database.cpp:457: f->second
Entry(cache, f) == CHOOSE e \in cache : e.format = f

\* mysql_stmt_affected_rows (database.cpp:536) after a successful execution
mysql_stmt_affected_rows(f) == IF f = "INSERT ?" THEN 1 ELSE 0

\* database.cpp:464, 472: mysql_stmt_close(cc.st)
Close(closed, h) == [closed EXCEPT ![h] = @ + 1]

\* database.cpp:358-359, 424-425: mysql_stmt_close(cc.second.st) for every entry
CloseAll(closed, cache) ==
    [h \in Handles |-> IF \E e \in cache : e.st = h THEN closed[h] + 1 ELSE closed[h]]

\* C23's mutant: the entries stay in the map after their handles were closed
NotEmptied(cache) == cache

\* database.cpp:363, 429: cached_queries = {}
Emptied(cache) == {}

\* C24's mutant: the call is not counted
NotCounted(n) == n

\* database.cpp:447: ++query_total
Counted(n) == n + 1

\* C12's mutant: the two diagnostic functions read without the lock
GuardedButDiagnostics(op) == op \notin {"cache_size", "query_count"}

\* database.cpp:187, 192, 219, 297, 356: the functions that declare
\* std::lock_guard<std::mutex> db_lock(db_mutex) as their first statement
Guarded(op) == op \in {"cache_size", "query_count", "connect", "raw_query", "close"}

\* where a thread is when it is in no call
Rest(t) == IF t = Worker THEN "wait" ELSE "idle"

\* the call goes on to its next statement
Goes(t, where) ==
    /\ pc' = [pc EXCEPT ![t] = where]
    /\ UNCHANGED <<db_mutex, ret, failedCalls, okCalls>>

\* return rv (database.cpp:434, 465, 473, 522, 575, 616): the result set was
\* declared at 421 and no statement of db::query assigns its error field or
\* its affected_rows field; the lock guard is released
Returns(t, rows, failure) ==
    /\ ret' = [ret EXCEPT ![t] = [done |-> TRUE, rows |-> rows, error |-> "",
                                  affected_rows |-> 0,
                                  failure |-> failure, raised |-> FALSE]]
    /\ okCalls' = IF failure = "none"
                  THEN [okCalls EXCEPT ![call[t].format] = @ + 1] ELSE okCalls
    /\ failedCalls' = IF failure = "none"
                      THEN failedCalls ELSE [failedCalls EXCEPT ![call[t].format] = @ + 1]
    /\ db_mutex' = NoThread
    /\ pc' = [pc EXCEPT ![t] = Rest(t)]

\* database.cpp:373-384: log_error(format, error), and the return rv that
\* follows each of its calls, rv holding the rows fetched so far.  For the
\* text Lost it calls db::close(), whose first statement locks db_mutex,
\* which the caller owns.
log_error(t, rows, failure, error) ==
    /\ last_error' = error
    /\ IF error = Lost
       THEN /\ pc' = [pc EXCEPT ![t] = "close_lock"]
            /\ ret' = [ret EXCEPT ![t] = [NoRet EXCEPT !.failure = failure]]
            /\ failedCalls' = [failedCalls EXCEPT ![call[t].format] = @ + 1]
            /\ UNCHANGED <<db_mutex, okCalls>>
       ELSE Returns(t, rows, failure)

\* an application thread calls db::query(format, parameters) with n parameters
call_execute(t, f, n) ==
    /\ t \in AppThreads
    /\ pc[t] = "idle"
    /\ nExec < MaxExec
    /\ nExec' = nExec + 1
    /\ call' = [call EXCEPT ![t] = [op |-> "query", format |-> f, n |-> n]]
    /\ ret' = [ret EXCEPT ![t] = NoRet]
    /\ pc' = [pc EXCEPT ![t] = "gate"]
    /\ UNCHANGED <<db_mutex, cached_queries, rows_affected, stmt_closed, connection,
                   query_total, last_error,
                   prepares, executes, okCalls, failedCalls, stable, reconnects, drops>>
    /\ UNCHANGED <<engine_vars, result_cache_vars>>

\* database.cpp:423-447: mysql_ping; on a dead connection every cached handle
\* is closed, the statement cache is emptied and unsafe_connect is called once
\* (ok: it succeeds); then the error and the affected rows are cleared and the
\* call is counted
query_ping(t, ok) ==
    /\ pc[t] = "exec"
    /\ call[t].op = "query"
    /\ db_mutex = t
    /\ IF connection = "up"
       THEN /\ last_error' = ""
            /\ rows_affected' = 0
            /\ query_total' = Counted(query_total)
            /\ Goes(t, "find")
            /\ UNCHANGED <<cached_queries, stmt_closed, connection, stable, reconnects>>
       ELSE /\ stmt_closed' = CloseAll(stmt_closed, cached_queries)
            /\ cached_queries' = Emptied(cached_queries)
            /\ stable' = FALSE
            /\ reconnects' = reconnects + 1
            /\ IF ok
               THEN /\ connection' = "up"
                    /\ last_error' = ""
                    /\ rows_affected' = 0
                    /\ query_total' = Counted(query_total)
                    /\ Goes(t, "find")
               ELSE /\ Returns(t, 0, "connect")
                    /\ UNCHANGED <<connection, last_error, rows_affected, query_total>>
    /\ UNCHANGED <<call, prepares, executes, nExec, drops>>
    /\ UNCHANGED <<engine_vars, result_cache_vars>>

\* database.cpp:453-492: the lookup in cached_queries; on a miss
\* mysql_stmt_init and mysql_stmt_prepare, the check of the parameter count,
\* expects_results, and the insertion.  After a failure the new handle is
\* closed (464, 472) when log_error returns.
query_find(t) ==
    /\ pc[t] = "find"
    /\ LET f == call[t].format
           st == <<f, prepares[f] + 1>>
       IN
       IF Find(cached_queries, f)
       THEN /\ Goes(t, "bind")
            /\ UNCHANGED <<cached_queries, stmt_closed, prepares, last_error>>
       ELSE /\ prepares' = [prepares EXCEPT ![f] = @ + 1]
            /\ IF connection # "up"
               THEN /\ log_error(t, 0, "prepare", Lost)
                    /\ UNCHANGED <<cached_queries, stmt_closed>>
               ELSE IF ~mysql_stmt_prepare(f)
               THEN /\ log_error(t, 0, "prepare", "error")
                    /\ stmt_closed' = Close(stmt_closed, st)
                    /\ UNCHANGED cached_queries
               ELSE IF call[t].n # mysql_stmt_param_count(f)
               THEN /\ log_error(t, 0, "count", "error")
                    /\ stmt_closed' = Close(stmt_closed, st)
                    /\ UNCHANGED cached_queries
               ELSE /\ cached_queries' = cached_queries \cup
                            {[format |-> f, st |-> st,
                              expects_results |-> expects_results(f), live |-> TRUE]}
                    /\ Goes(t, "bind")
                    /\ UNCHANGED <<last_error, stmt_closed>>
    /\ UNCHANGED <<rows_affected, connection, query_total, call, executes, stable,
                   reconnects, nExec, drops>>
    /\ UNCHANGED <<engine_vars, result_cache_vars>>

\* database.cpp:494-524: with parameters, fill bindings and lengths and call
\* mysql_stmt_bind_param (ok: it succeeds).  The two arrays have
\* mysql_stmt_param_count elements and are null when that is zero: more
\* parameters than that write past them, which is undefined; the process
\* dies, or goes on when the arrays exist.
query_bind(t, ok, fate) ==
    /\ pc[t] = "bind"
    /\ LET n == call[t].n
           expected == mysql_stmt_param_count(call[t].format)
       IN  IF n = 0
           THEN Goes(t, "execute") /\ UNCHANGED last_error
           ELSE IF n > expected /\ (expected = 0 \/ fate = "crash")
           THEN /\ pc' = [u \in Threads |-> "crashed"]
                /\ UNCHANGED <<db_mutex, ret, failedCalls, okCalls, last_error>>
           ELSE IF ok
           THEN Goes(t, "execute") /\ UNCHANGED last_error
           ELSE log_error(t, 0, "bind", "error")
    /\ UNCHANGED <<cached_queries, rows_affected, stmt_closed, connection, query_total,
                   call, prepares, executes, stable, reconnects, nExec, drops>>
    /\ UNCHANGED <<engine_vars, result_cache_vars>>

\* database.cpp:526-616: the branch on cc.expects_results of the entry;
\* mysql_stmt_execute and, for a statement that yields rows, the metadata,
\* mysql_stmt_bind_result and the fetch loop.  what is the step that fails:
\* nothing, the setup of the result, the execution, the first fetch or a fetch
\* after a row was added to rv.  A failed execution of a statement that yields
\* rows has no else branch (database.cpp:578-579).
query_execute(t, what) ==
    /\ pc[t] = "execute"
    /\ LET f == call[t].format
           cc == Entry(cached_queries, f)
       IN
       IF ~cc.expects_results
       THEN /\ what \in {"ok", "execute"}
            /\ executes' = [executes EXCEPT ![f] = @ + 1]
            /\ IF connection # "up"
               THEN log_error(t, 0, "execute", Lost) /\ UNCHANGED rows_affected
               ELSE IF what = "execute"
               THEN log_error(t, 0, "execute", "error") /\ UNCHANGED rows_affected
               ELSE /\ Returns(t, 0, "none")
                    /\ rows_affected' = mysql_stmt_affected_rows(f)
                    /\ UNCHANGED last_error
       ELSE IF what = "setup"
       THEN /\ log_error(t, 0, "bind", "error")
            /\ UNCHANGED <<executes, rows_affected>>
       ELSE /\ executes' = [executes EXCEPT ![f] = @ + 1]
            /\ UNCHANGED rows_affected
            /\ IF connection # "up" \/ what = "execute"
               THEN Returns(t, 0, "execute") /\ UNCHANGED last_error
               ELSE IF what = "fetch"
               THEN log_error(t, 0, "fetch", "error")
               ELSE IF what = "fetch_more"
               THEN log_error(t, 1, "fetch", "error")
               ELSE Returns(t, 1, "none") /\ UNCHANGED last_error
    /\ UNCHANGED <<cached_queries, stmt_closed, connection, query_total, call, prepares,
                   stable, reconnects, nExec, drops>>
    /\ UNCHANGED <<engine_vars, result_cache_vars>>

\* database.cpp:377, 356: db::close() called by log_error locks db_mutex, which
\* this thread owns: undefined for a std::mutex.  The thread blocks for ever,
\* or lock() throws std::system_error, which leaves db::query through the
\* lock guard of database.cpp:420.
close_relock(t, fate) ==
    /\ pc[t] = "close_lock"
    /\ db_mutex = t
    /\ IF fate = "throw"
       THEN /\ ret' = [ret EXCEPT ![t] = [@ EXCEPT !.done = TRUE, !.raised = TRUE]]
            /\ db_mutex' = NoThread
            /\ pc' = [pc EXCEPT ![t] = Rest(t)]
       ELSE /\ pc' = [pc EXCEPT ![t] = "blocked"]
            /\ UNCHANGED <<ret, db_mutex>>
    /\ UNCHANGED <<cached_queries, rows_affected, stmt_closed, connection, query_total,
                   last_error, call, prepares,
                   executes, okCalls, failedCalls, stable, reconnects, nExec, drops>>
    /\ UNCHANGED <<engine_vars, result_cache_vars>>

\* a call of db::close, db::connect, db::cache_size or db::query_count by the
\* application, or of raw_query by the worker for a transaction
call_op(t, op) ==
    /\ \/ t \in AppThreads /\ op \in {"close", "connect", "cache_size", "query_count"}
       \/ t = Worker /\ op = "raw_query"
    /\ pc[t] = Rest(t)
    /\ nExec < MaxExec
    /\ nExec' = nExec + 1
    /\ call' = [call EXCEPT ![t] = [op |-> op, format |-> "", n |-> 0]]
    /\ ret' = [ret EXCEPT ![t] = NoRet]
    /\ pc' = [pc EXCEPT ![t] = "op_lock"]
    /\ UNCHANGED <<db_mutex, cached_queries, rows_affected, stmt_closed, connection,
                   query_total, last_error,
                   prepares, executes, okCalls, failedCalls, stable, reconnects, drops>>
    /\ UNCHANGED <<engine_vars, result_cache_vars>>

\* database.cpp:187, 192, 219, 297, 356: std::lock_guard<std::mutex> db_lock(db_mutex)
op_lock(t) ==
    /\ pc[t] = "op_lock"
    /\ IF Guarded(call[t].op)
       THEN db_mutex = NoThread /\ db_mutex' = t
       ELSE UNCHANGED db_mutex
    /\ pc' = [pc EXCEPT ![t] = "op_body"]
    /\ UNCHANGED <<executor_vars, engine_vars, result_cache_vars>>

\* database.cpp:188, 193, 220, 298, 357-365: what the function does with the
\* connection, the statement cache or the counter, and its return.  db::close
\* closes every cached handle and empties the map; unsafe_connect calls
\* mysql_init on the connection (207) and leaves the map as it is, so that
\* its handles are those of the connection that was replaced.
op_body(t, ok) ==
    /\ pc[t] = "op_body"
    /\ CASE call[t].op = "close" ->
                /\ connection' = "closed"
                /\ stmt_closed' = CloseAll(stmt_closed, cached_queries)
                /\ cached_queries' = Emptied(cached_queries)
                /\ stable' = FALSE
         [] call[t].op = "connect" ->
                /\ connection' = IF ok THEN "up" ELSE "down"
                /\ stable' = FALSE
                /\ cached_queries' = {[e EXCEPT !.live = FALSE] : e \in cached_queries}
                /\ UNCHANGED stmt_closed
         [] OTHER -> UNCHANGED <<connection, cached_queries, stmt_closed, stable>>
    /\ ret' = [ret EXCEPT ![t] = [NoRet EXCEPT !.done = TRUE]]
    /\ db_mutex' = IF db_mutex = t THEN NoThread ELSE db_mutex
    /\ pc' = [pc EXCEPT ![t] = Rest(t)]
    /\ UNCHANGED <<rows_affected, query_total, last_error, call, prepares, executes,
                   okCalls, failedCalls, reconnects, nExec, drops>>
    /\ UNCHANGED <<engine_vars, result_cache_vars>>

\* the server or the network drops the connection
connection_drop ==
    /\ connection = "up"
    /\ drops < MaxDrops
    /\ drops' = drops + 1
    /\ connection' = "down"
    /\ stable' = FALSE
    /\ UNCHANGED <<pc, db_mutex, cached_queries, rows_affected, stmt_closed,
                   query_total, last_error, call, ret,
                   prepares, executes, okCalls, failedCalls, reconnects, nExec>>
    /\ UNCHANGED <<engine_vars, result_cache_vars>>

\* a thread makes a call
ExecCall(t) ==
    \/ \E f \in Formats, n \in 0..MaxParams : call_execute(t, f, n)
    \/ \E op \in {"close", "connect", "cache_size", "query_count", "raw_query"} :
           call_op(t, op)

\* a thread goes on with the call it is in
ExecContinue(t) ==
    \/ query_gate(t)
    \/ query_lock(t)
    \/ \E ok \in BOOLEAN : query_ping(t, ok)
    \/ query_find(t)
    \/ \E ok \in BOOLEAN, fate \in {"crash", "go on"} : query_bind(t, ok, fate)
    \/ \E what \in {"ok", "setup", "execute", "fetch", "fetch_more"} :
           query_execute(t, what)
    \/ \E fate \in {"block", "throw"} : close_relock(t, fate)
    \/ op_lock(t)
    \/ \E ok \in BOOLEAN : op_body(t, ok)

ExecNext ==
    \/ \E t \in Threads : ExecCall(t)
    \/ \E t \in Threads : ExecContinue(t)
    \/ connection_drop

\* the functions that use the connection, every statement under the lock a step
ExecSpec == Init /\ [][ExecNext]_vars

\* Scheduling: a thread that can go on with its call eventually does.
FairExecSpec == ExecSpec /\ \A t \in Threads : WF_vars(ExecContinue(t))

\* ---- db::query(format, parameters, lifetime), database.cpp:391-404 ----

\* std::hash of a string and of a parameter value (database.cpp:142-163), two bits
hash_string(fm) == IF fm = "SELECT a" THEN 1 ELSE 2
hash_value(p) == p.value % 4

\* operator^ on two bits (database.cpp:147-161)
Xor(a, b) == (((a % 2) + (b % 2)) % 2) + 2 * (((a \div 2) + (b \div 2)) % 2)

\* database.cpp:140-170: cached_query_hash
RECURSIVE hash_parameters(_, _)
hash_parameters(x, ps) ==
    IF ps = <<>> THEN x ELSE hash_parameters(Xor(x, hash_value(Head(ps))), Tail(ps))
cached_query_hash(k) == hash_parameters(hash_string(k.format), k.parameters)

\* C18's mutant: two parameters are equal when their values are
variant_equal_by_value(a, b) == a.value = b.value

\* operator== of std::variant, used by operator== of the vectors at
\* database.cpp:177: the same alternative and the same value
variant_equal(a, b) == a.type = b.type /\ a.value = b.value

\* database.cpp:172-179: cached_query_equal
cached_query_equal(lhs, rhs) ==
    IF lhs.format # rhs.format \/ Len(lhs.parameters) # Len(rhs.parameters)
    THEN FALSE
    ELSE \A i \in 1..Len(lhs.parameters) :
             variant_equal(lhs.parameters[i], rhs.parameters[i])

\* std::unordered_map::find (database.cpp:394): the node whose key has the hash
\* of r and is equal to r, or end()
find(map, r) ==
    LET hits == {e \in map : /\ cached_query_hash(e.key) = cached_query_hash(r)
                            /\ cached_query_equal(e.key, r)}
    IN  IF hits = {} THEN NoNode ELSE CHOOSE e \in hits : TRUE

\* std::unordered_map::emplace (database.cpp:402): no insertion when a node
\* with an equal key exists
emplace(map, r, rs) ==
    IF find(map, r) # NoNode THEN map
    ELSE map \cup {[key |-> r, results |-> rs.results, expiry |-> rs.expiry]}

\* C34's mutant: no stored result is returned, every call goes on to the query
NeverFresh(t, expiry) == FALSE

\* database.cpp:396: now < f->second.expiry
Fresh(t, expiry) == t < expiry

\* the operation on cached_query_res a thread is inside of
InMap(t) == pc[t] \in {"in_find", "in_erase", "in_emplace"}
Writes(t) == pc[t] \in {"in_erase", "in_emplace", "at_erase", "at_emplace"}

\* database.cpp:391-393: the call reads the clock and builds its key.  prev is
\* the node the call before it inserted, when this call is the next one made
\* and no other call is under way.
cached_call(t, k, lifetime) ==
    /\ t \in AppThreads
    /\ pc[t] = "idle"
    /\ nCached < MaxCached
    /\ nCached' = nCached + 1
    /\ ccall' = [ccall EXCEPT ![t] =
           [NoCachedCall EXCEPT !.key = k, !.lifetime = lifetime, !.now = now,
                                !.prev = IF \A u \in AppThreads : pc[u] = "idle"
                                         THEN stored ELSE NoNode]]
    /\ stored' = NoNode
    /\ cret' = [cret EXCEPT ![t] = NoCachedRet]
    /\ pc' = [pc EXCEPT ![t] = "at_find"]
    /\ UNCHANGED <<cached_query_res, now, data>>
    /\ UNCHANGED <<db_mutex, engine_vars, executor_vars>>

\* database.cpp:394, 398, 402: the thread enters find, erase or emplace; no
\* lock is taken.  When another thread is inside an operation on the map and
\* one of the two writes, both operations are a data race.
map_enter(t) ==
    /\ pc[t] \in {"at_find", "at_erase", "at_emplace"}
    /\ LET racing == {u \in AppThreads \ {t} : InMap(u) /\ (Writes(u) \/ Writes(t))}
       IN  ccall' = [u \in Threads |->
                        IF u \in racing \/ (u = t /\ racing # {})
                        THEN [ccall[u] EXCEPT !.raced = TRUE] ELSE ccall[u]]
    /\ pc' = [pc EXCEPT ![t] = CASE pc[t] = "at_find" -> "in_find"
                                 [] pc[t] = "at_erase" -> "in_erase"
                                 [] OTHER -> "in_emplace"]
    /\ UNCHANGED <<cached_query_res, now, data, cret, nCached, stored>>
    /\ UNCHANGED <<db_mutex, engine_vars, executor_vars>>

\* database.cpp:394-400: find returns; a fresh node is returned to the caller,
\* a stale one is to be erased.  After a data race the result is undefined:
\* the operation ends as if alone, or the process dies.
find_end(t, fate) ==
    /\ pc[t] = "in_find"
    /\ IF ccall[t].raced /\ fate = "crash"
       THEN /\ pc' = [u \in Threads |-> "crashed"]
            /\ UNCHANGED <<ccall, cret>>
       ELSE LET f == find(cached_query_res, ccall[t].key) IN
            IF f # NoNode /\ Fresh(ccall[t].now, f.expiry)
            THEN /\ cret' = [cret EXCEPT ![t] = [done |-> TRUE, results |-> f.results,
                                                 runs |-> 0, hit |-> TRUE]]
                 /\ ccall' = [ccall EXCEPT ![t] = NoCachedCall]
                 /\ pc' = [pc EXCEPT ![t] = "idle"]
            ELSE /\ ccall' = [ccall EXCEPT ![t] = [@ EXCEPT !.f = f, !.raced = FALSE]]
                 /\ pc' = [pc EXCEPT ![t] = IF f # NoNode THEN "at_erase"
                                                          ELSE "at_query"]
                 /\ UNCHANGED cret
    /\ UNCHANGED <<cached_query_res, now, data, nCached, stored>>
    /\ UNCHANGED <<db_mutex, engine_vars, executor_vars>>

\* database.cpp:398: cached_query_res.erase(f).  The iterator is invalid when
\* another thread erased the node since find: undefined, as after a data race.
erase_end(t, fate) ==
    /\ pc[t] = "in_erase"
    /\ IF (ccall[t].raced \/ ccall[t].f \notin cached_query_res) /\ fate = "crash"
       THEN /\ pc' = [u \in Threads |-> "crashed"]
            /\ UNCHANGED <<ccall, cached_query_res>>
       ELSE /\ cached_query_res' = cached_query_res \ {ccall[t].f}
            /\ ccall' = [ccall EXCEPT ![t] = [@ EXCEPT !.raced = FALSE]]
            /\ pc' = [pc EXCEPT ![t] = "at_query"]
    /\ UNCHANGED <<now, data, cret, nCached, stored>>
    /\ UNCHANGED <<db_mutex, engine_vars, executor_vars>>

\* database.cpp:401: query(format, parameters) runs, as one step: it passes the
\* gate (412-414), holds db_mutex for its body (420), clears the diagnostics
\* and counts the call (441-447).  When the statement succeeds it returns the
\* rows the server has at present; when it fails, log_error sets last_error
\* and the rv of 421 is returned with no rows.
query_run(t, ok) ==
    /\ pc[t] = "at_query"
    /\ GateOpen(t)
    /\ db_mutex = NoThread
    /\ last_error' = IF ok THEN "" ELSE "error"
    /\ rows_affected' = 0
    /\ query_total' = Counted(query_total)
    /\ ccall' = [ccall EXCEPT ![t] = [@ EXCEPT !.results = IF ok THEN data ELSE NoRows,
                                               !.runs = @ + 1]]
    /\ pc' = [pc EXCEPT ![t] = "at_emplace"]
    /\ UNCHANGED <<cached_query_res, now, data, cret, nCached, stored>>
    /\ UNCHANGED <<db_mutex, engine_vars>>
    /\ UNCHANGED <<cached_queries, stmt_closed, connection, call, ret, prepares,
                   executes, okCalls, failedCalls, stable, reconnects, nExec, drops>>

\* database.cpp:401-403: emplace of the fresh result with expiry now + lifetime,
\* and return rs.results
emplace_end(t, fate) ==
    /\ pc[t] = "in_emplace"
    /\ IF ccall[t].raced /\ fate = "crash"
       THEN /\ pc' = [u \in Threads |-> "crashed"]
            /\ UNCHANGED <<ccall, cret, cached_query_res, stored>>
       ELSE /\ cached_query_res' =
                   emplace(cached_query_res, ccall[t].key,
                           [results |-> ccall[t].results,
                            expiry |-> ccall[t].now + ccall[t].lifetime])
            /\ stored' = IF find(cached_query_res, ccall[t].key) # NoNode THEN NoNode
                         ELSE [key |-> ccall[t].key, results |-> ccall[t].results,
                               expiry |-> ccall[t].now + ccall[t].lifetime]
            /\ ccall' = [ccall EXCEPT ![t] = NoCachedCall]
            /\ cret' = [cret EXCEPT ![t] = [done |-> TRUE, results |-> ccall[t].results,
                                            runs |-> ccall[t].runs, hit |-> FALSE]]
            /\ pc' = [pc EXCEPT ![t] = "idle"]
    /\ UNCHANGED <<now, data, nCached>>
    /\ UNCHANGED <<db_mutex, engine_vars, executor_vars>>

\* time passes
tick ==
    /\ now < MaxTime
    /\ now' = now + 1
    /\ UNCHANGED <<cached_query_res, data, ccall, cret, nCached, stored>>
    /\ UNCHANGED <<pc, db_mutex, engine_vars, executor_vars>>

\* the rows on the server change
server_write ==
    /\ data < MaxData
    /\ data' = data + 1
    /\ UNCHANGED <<cached_query_res, now, ccall, cret, nCached, stored>>
    /\ UNCHANGED <<pc, db_mutex, engine_vars, executor_vars>>

\* what a thread does in and around a call with a lifetime whose statement
\* succeeds
CachedNext(t) ==
    \/ \E k \in Keys, lifetime \in 1..MaxLifetime : cached_call(t, k, lifetime)
    \/ map_enter(t)
    \/ \E fate \in {"crash", "go on"} : find_end(t, fate)
    \/ \E fate \in {"crash", "go on"} : erase_end(t, fate)
    \/ query_run(t, TRUE)
    \/ \E fate \in {"crash", "go on"} : emplace_end(t, fate)

CacheNext ==
    \/ \E t \in AppThreads : CachedNext(t)
    \/ tick
    \/ server_write

\* any thread calls db::query with a lifetime
CacheSpec == Init /\ [][CacheNext]_vars

\* one thread alone makes the calls, one after the other
CacheCaller == "t1"

SerialCacheNext ==
    \/ CachedNext(CacheCaller)
    \/ tick
    \/ server_write

SerialCacheSpec == Init /\ [][SerialCacheNext]_vars

\* Calls under one key, whose statement may fail.
OneKey == [format |-> "SELECT a", parameters |-> <<>>]

FailingNext(t) ==
    \/ cached_call(t, OneKey, MaxLifetime)
    \/ map_enter(t)
    \/ \E fate \in {"crash", "go on"} : find_end(t, fate)
    \/ \E fate \in {"crash", "go on"} : erase_end(t, fate)
    \/ \E ok \in BOOLEAN : query_run(t, ok)
    \/ \E fate \in {"crash", "go on"} : emplace_end(t, fate)

FailingCacheNext ==
    \/ \E t \in AppThreads : FailingNext(t)
    \/ tick
    \/ server_write

\* any thread calls db::query with a lifetime, and statements may fail
FailingCacheSpec == Init /\ [][FailingCacheNext]_vars

\* One thread makes calls with a lifetime while another starts transactions
\* and the worker runs them.
OtherCaller == "t2"

PendingNext ==
    \/ FailingNext(CacheCaller)
    \/ tick
    \/ server_write
    \/ \E closure \in BOOLEAN : transaction_check(OtherCaller, closure)
    \/ \E t \in Threads : Continue(t)
    \/ worker_pop
    \/ WrapperNext

PendingCacheSpec == Init /\ [][PendingNext]_vars

\* ---- what the claims speak of ----

\* the wrapper has issued START TRANSACTION and not yet COMMIT or ROLLBACK
TxOpenOnWire ==
    /\ txlog # <<>>
    /\ txlog[Len(txlog)] \notin {"COMMIT", "ROLLBACK"}

\* call k of db::transaction passed the test of the flag
Accepted(k) == txStatus[k] \in {"accepted", "returned"}

\* entry <<p, n>> was pushed before call k pushed its sentinel
PushedBefore(e, k) == e[2] <= txBefore[k][e[1]]

\* entry <<p, n>> is on the queue or was on it
Enqueued(e) == e[2] <= nSent[e[1]]

\* C1: between START TRANSACTION and COMMIT or ROLLBACK of the wrapper, no
\* statement of another thread runs on the connection.
C1_NoForeignStatement ==
    TxOpenOnWire => \A t \in AppThreads : pc[t] # "exec"

\* C2: every db::transaction call that returned without a conflict has its
\* wrapper run to its end by the worker, and the pending flag becomes false again.
C2_TransactionCompletes ==
    \A k \in 1..MaxTx :
        /\ (txStatus[k] = "returned") ~> (finished[k] > 0)
        /\ (txStatus[k] = "returned") ~> (~transaction_in_progress)

\* C3: when the wrapper of call k issues START TRANSACTION, every entry pushed
\* before the call was executed and its callback invoked; and until the wrapper
\* ends no entry pushed after the call is executed.
C3_QueueTurn ==
    /\ (running # NoThunk /\ txlog # <<>>) =>
           \A e \in UserEntries :
               PushedBefore(e, running.id) => executed[e] > 0 /\ called[e] > 0
    /\ \A k \in 1..MaxTx :
           (txStatus[k] = "returned" /\ finished[k] = 0) =>
               \A e \in UserEntries : ~PushedBefore(e, k) => executed[e] = 0

\* C4: at most one accepted call is outstanding at a time, and the closure of
\* an accepted call is never lost: until its wrapper has run it is held by the
\* caller, stored in transaction_function or being run by the worker.
C4_AtomicTestAndSet ==
    /\ Cardinality({k \in 1..MaxTx : Accepted(k) /\ finished[k] = 0}) <= 1
    /\ \A k \in 1..MaxTx :
           (Accepted(k) /\ finished[k] = 0) =>
               \/ \E t \in AppThreads : pc[t] = "t_store" /\ arg[t].id = k
               \/ transaction_function.id = k
               \/ running.id = k

\* C5: a db::transaction call made while the pending flag is set reports the
\* conflict and returns, and leaves the stored thunk, the flag and the queue
\* as they were.
C5_ConflictChangesNothing ==
    [][(nCalls' = nCalls + 1 /\ transaction_in_progress) =>
           /\ txStatus'[nCalls + 1] = "conflict"
           /\ UNCHANGED <<pc, arg, transaction_function, transaction_in_progress,
                          sql_query_queue, running>>]_vars

\* C5, its case: a call was refused while the transaction it met is still pending
C5_Witness ==
    \E k \in 1..MaxTx :
        /\ txStatus[k] = "conflict"
        /\ transaction_in_progress
        /\ transaction_function # NoThunk

\* s is an initial part of r
IsPrefix(s, r) == Len(s) <= Len(r) /\ \A i \in 1..Len(s) : s[i] = r[i]

\* C6: the wrapper issues START TRANSACTION first, then invokes the closure
\* when there is one, then issues COMMIT or ROLLBACK, never both; a wrapper
\* that reached its end issued COMMIT if the closure returned true and
\* ROLLBACK in every other case.
C6_CommitXorRollback ==
    /\ \E last \in {"COMMIT", "ROLLBACK"} :
           \/ IsPrefix(txlog, <<"START TRANSACTION", "closure", last>>)
           \/ IsPrefix(txlog, <<"START TRANSACTION", last>>)
    /\ pc[Worker] \in {"clear", "reset"} =>
           txlog = CASE outcome = "true"   -> <<"START TRANSACTION", "closure", "COMMIT">>
                     [] outcome = "false"  -> <<"START TRANSACTION", "closure", "ROLLBACK">>
                     [] outcome = "throw"  -> <<"START TRANSACTION", "closure", "ROLLBACK">>
                     [] outcome = "absent" -> <<"START TRANSACTION", "ROLLBACK">>
                     [] OTHER -> <<"no outcome">>

\* C6, its case: a wrapper whose closure threw has ended
C6_Witness ==
    /\ pc[Worker] = "clear"
    /\ outcome = "throw"
    /\ writes = 1

\* C7: when the wrapper has ended, all writes of the closure are visible if it
\* returned true and none is visible otherwise.
C7_AllOrNothing ==
    pc[Worker] = "reset" => srvVisible = (IF outcome = "true" THEN writes ELSE 0)

\* C8: when the worker is done with the transaction of call k, the completion
\* callback passed to that call has been invoked exactly once, and it is never
\* invoked before the holder flag and the pending flag were cleared.
C8_CompletionCallback ==
    \A k \in 1..MaxTx :
        /\ (finished[k] > 0 /\ running.id # k) => called[<<"done", k>>] = 1
        /\ called[<<"done", k>>] <= finished[k]

\* C9: of two entries one thread pushed, the later one is never executed, and
\* its callback never invoked, before the earlier one.
C9_AsyncOrder ==
    \A p \in AppThreads : \A n1 \in 1..MaxAsync, n2 \in 1..MaxAsync :
        n1 < n2 =>
            /\ executed[<<p, n2>>] > 0 => executed[<<p, n1>>] > 0
            /\ called[<<p, n2>>] > 0 => called[<<p, n1>>] > 0
            /\ executed[<<p, n2>>] > 0 => called[<<p, n1>>] > 0

\* C9, its case: both entries of one thread were executed and answered
C9_Witness ==
    \E p \in AppThreads :
        /\ nSent[p] >= 2
        /\ called[<<p, 1>>] = 1
        /\ called[<<p, 2>>] = 1

\* C10: every entry pushed on the queue is executed once and its callback
\* invoked once, never twice, and eventually.
C10_EveryEntryAnswered ==
    /\ [](\A e \in UserEntries : executed[e] <= 1 /\ called[e] <= 1)
    /\ \A e \in UserEntries : Enqueued(e) ~> (executed[e] = 1 /\ called[e] = 1)

\* C11: the worker owns the queue lock only while it waits for and dequeues an
\* entry, never while it runs a query, a callback or a transaction; whoever
\* owns the lock is pushing or popping, so nothing else delays a producer.
C11_QueueLockOnlyForQueue ==
    /\ query_queue_mtx = Worker => pc[Worker] = "w_wait"
    /\ \A t \in AppThreads : query_queue_mtx = t => pc[t] \in {"q_emplace", "t_emplace"}

\* C11, its case: a producer is inside its push while the worker runs the
\* closure of a transaction
C11_Witness ==
    /\ pc[Worker] = "closure"
    /\ \E t \in AppThreads : pc[t] = "q_emplace" /\ query_queue_mtx = t


\* thread t is between acquiring db_mutex and releasing it
UsesConnection(t) ==
    pc[t] \in {"exec", "find", "bind", "execute", "close_lock", "blocked", "op_body"}

\* C12: at most one thread at a time is inside db::query, raw_query, db::close,
\* db::connect, db::cache_size or db::query_count past the lock guard, and a
\* thread that is there owns db_mutex.
C12_ConnectionMutex ==
    /\ Cardinality({t \in Threads : UsesConnection(t)}) <= 1
    /\ \A t \in Threads : UsesConnection(t) => db_mutex = t

\* C12, its case: one call is about to execute its statement while db::cache_size
\* and raw_query wait for the lock
C12_Witness ==
    \E t \in AppThreads, u \in AppThreads :
        /\ pc[t] = "execute"
        /\ pc[u] = "op_lock" /\ call[u].op = "cache_size"
        /\ pc[Worker] = "op_lock"

\* C13: mysql_stmt_execute is never reached by a call whose number of
\* parameters differs from the number of placeholders of its statement.
C13_MismatchNotExecuted ==
    \A t \in AppThreads :
        pc[t] = "execute" => call[t].n = mysql_stmt_param_count(call[t].format)

\* C14: a db::query call that returned carries an error in its result set
\* exactly when preparation, the parameter count, binding, execution or a
\* fetch failed in it, and no failure leaves the call as an exception.
C14_ErrorInResultSet ==
    \A t \in AppThreads :
        (ret[t].done /\ call[t].op = "query") =>
            /\ ret[t].error # "" <=>
                   ret[t].failure \in {"prepare", "count", "bind", "execute", "fetch"}
            /\ ~ret[t].raised

\* C15: while the connection stays alive and no call for a text has failed,
\* mysql_stmt_prepare was called at most once for it, exactly once as soon as a
\* call for it succeeded, and mysql_stmt_execute once per successful call.
C15_PrepareOnce ==
    stable =>
        \A f \in Formats :
            failedCalls[f] = 0 =>
                /\ prepares[f] <= 1
                /\ okCalls[f] >= 1 => prepares[f] = 1
                /\ executes[f] = okCalls[f]

\* C15, its case: three calls with the same text succeeded on one connection
C15_Witness ==
    \E f \in Formats : stable /\ failedCalls[f] = 0 /\ okCalls[f] = MaxExec

\* C16: of two calls with the same key made one after the other, with no
\* other call under way when the second is made, the second, when it read a
\* time before the expiry the first stored, returns the result set the first
\* stored and does not run the executor.
C16_SecondCallIsAnswered ==
    [][\A t \in AppThreads :
          ( /\ pc[t] \in {"in_find", "in_emplace"} /\ pc'[t] = "idle"
            /\ ccall[t].prev # NoNode
            /\ ccall[t].prev.key = ccall[t].key
            /\ ccall[t].now < ccall[t].prev.expiry ) =>
              /\ cret'[t].runs = 0
              /\ cret'[t].results = ccall[t].prev.results]_vars

\* C17: a call that found a stale node for its key runs the executor once and
\* leaves the map with exactly one node for the key, which holds the fresh
\* result and the expiry time of the call + lifetime.
C17_StaleIsReplaced ==
    [][\A t \in AppThreads :
          (pc[t] = "in_emplace" /\ pc'[t] = "idle" /\ ccall[t].f # NoNode) =>
              /\ cret'[t].runs = 1
              /\ {e \in cached_query_res' : e.key = ccall[t].key}
                   = {[key |-> ccall[t].key, results |-> cret'[t].results,
                       expiry |-> ccall[t].now + ccall[t].lifetime]}]_vars

\* two keys have the same text, the same number of parameters and at every
\* position the same alternative and the same value
SameKey(k1, k2) ==
    /\ k1.format = k2.format
    /\ Len(k1.parameters) = Len(k2.parameters)
    /\ \A i \in 1..Len(k1.parameters) :
           /\ k1.parameters[i].type = k2.parameters[i].type
           /\ k1.parameters[i].value = k2.parameters[i].value

\* C18: the lookup of a call finds a node exactly when the map has a node
\* whose key is the same as the call's, that node is the one it finds, and the
\* map never holds two nodes with the same key.
C18_StructuralKeys ==
    /\ \A t \in AppThreads :
           pc[t] = "in_find" =>
               LET f == find(cached_query_res, ccall[t].key) IN
               /\ f # NoNode <=> \E e \in cached_query_res : SameKey(e.key, ccall[t].key)
               /\ f # NoNode => SameKey(f.key, ccall[t].key)
    /\ \A e1 \in cached_query_res, e2 \in cached_query_res :
           SameKey(e1.key, e2.key) => e1 = e2

\* C18, its case: a call with the integer 1 looks up a map that holds a node
\* for the same text with the float 1.0
C18_Witness ==
    /\ pc[CacheCaller] = "in_find"
    /\ ccall[CacheCaller].key =
           [format |-> "SELECT a", parameters |-> <<[type |-> "int32_t", value |-> 1]>>]
    /\ \E e \in cached_query_res :
           e.key = [format |-> "SELECT a", parameters |-> <<[type |-> "float", value |-> 1]>>]

\* C19: at most one thread at a time is inside find, erase or emplace of
\* cached_query_res.
C19_OneThreadInMap ==
    Cardinality({t \in AppThreads : InMap(t)}) <= 1

\* C20: a db::query call in which the driver reported the lost connection
\* closes the connection, empties the statement cache, and returns to its
\* caller.
C20_LostConnectionRecovery ==
    \A t \in AppThreads :
        (pc[t] = "close_lock") ~>
            (pc[t] = "idle" /\ ret[t].done /\ ~ret[t].raised /\ cached_queries = {})

\* C21: a db::query call whose health check failed and whose reconnect failed
\* returns a result set with no rows and a non-empty error, and has released
\* db_mutex.
C21_ReconnectFailure ==
    \A t \in AppThreads :
        (ret[t].done /\ ret[t].failure = "connect") =>
            /\ ret[t].rows = 0
            /\ ret[t].error # ""
            /\ db_mutex # t

\* the worker is between database.cpp:276 and 278: it runs the stored wrapper,
\* the closure or a db::query call of the closure
InWrapper ==
    \/ pc[Worker] \in {"start_lock", "start_exec", "invoke", "closure", "thrown", "end_lock",
                       "end_exec", "clear", "reset"}
    \/ pc[Worker] \in {"gate", "lock", "exec"} /\ ctx = "closure"

\* C25: while the process runs, holds_transaction_lock is true on no thread
\* but the worker, and on the worker only while it runs the stored wrapper;
\* it is false when the worker waits for or has dequeued the next entry.
C25_FlagOnlyInWrapper ==
    \A t \in Threads :
        (holds_transaction_lock[t] /\ pc[t] # "crashed") =>
            (t = Worker /\ InWrapper)

\* C25, its case: the flag is set while the closure's db::query holds db_mutex
C25_Witness ==
    /\ holds_transaction_lock[Worker]
    /\ pc[Worker] = "exec"
    /\ ctx = "closure"

\* C26: when the worker has dequeued an entry with an empty format that has a
\* callback and is past database.cpp:261-266, the callback was invoked.
C26_SentinelCallback ==
    (pc[Worker] = "check" /\ qr.format = "" /\ qr.callback) =>
        called[<<qr.owner, qr.n>>] > 0

\* C22: the result set a successful db::query call of a statement that yields
\* no rows returns has in affected_rows the count the driver reports for the
\* execution.
C22_AffectedRows ==
    \A t \in AppThreads :
        ( /\ ret[t].done /\ ~ret[t].raised /\ ret[t].failure = "none"
          /\ call[t].op = "query"
          /\ ~expects_results(call[t].format) ) =>
            ret[t].affected_rows = mysql_stmt_affected_rows(call[t].format)

\* C23: no handle is closed twice, every handle in the statement cache is
\* open, and when db::close returns the statement cache is empty and every
\* handle that was in it has been closed once.
C23_HandlesClosedOnce ==
    [][ /\ \A h \in Handles : stmt_closed'[h] <= 1
        /\ \A e \in cached_queries' : stmt_closed'[e.st] = 0
        /\ \A t \in AppThreads :
               (pc[t] = "op_body" /\ call[t].op = "close" /\ pc'[t] = "idle") =>
                   /\ cached_queries' = {}
                   /\ \A e \in cached_queries : stmt_closed'[e.st] = 1 ]_vars

\* C23, its case: db::close has returned after a statement was prepared,
\* cached and executed, and has closed its handle
C23_Witness ==
    \E t \in AppThreads, f \in Formats :
        /\ pc[t] = "idle" /\ call[t].op = "close" /\ ret[t].done
        /\ okCalls[f] > 0
        /\ stmt_closed[<<f, 1>>] = 1
        /\ cached_queries = {}

\* C24: query_total grows by one in the step in which a db::query call passes
\* the health check, and is left as it is by every other step: a call whose
\* reconnect fails, raw_query, close, connect and the two diagnostics.
C24_QueryTotal ==
    [][ query_total' = query_total +
            Cardinality({t \in Threads : /\ pc[t] = "exec" /\ call[t].op = "query"
                                         /\ pc'[t] = "find"}) ]_vars

\* C24, its case: of three calls, one that failed at prepare was counted, one
\* whose reconnect failed and a raw_query of the worker were not
C24_Witness ==
    /\ query_total = 1
    /\ ret[Worker].done
    /\ \E t \in AppThreads, u \in AppThreads :
           /\ ret[t].done /\ ret[t].failure = "prepare"
           /\ ret[u].done /\ ret[u].failure = "connect"

\* C27: a db::query call that fails at mysql_stmt_prepare or at the check of
\* the parameter count leaves the statement cache as it was and has closed
\* the handle it made.
C27_FailedPrepare ==
    [][ \A t \in AppThreads :
            (pc[t] = "find" /\ pc'[t] \notin {"find", "bind", "crashed"}) =>
                /\ cached_queries' = cached_queries
                /\ stmt_closed'[<<call[t].format, prepares'[call[t].format]>>] = 1 ]_vars

\* C28: every handle in the statement cache was prepared on the connection as
\* it was last initialised.
C28_HandlesOfLiveConnection ==
    \A e \in cached_queries : e.live

Texts ==
    {p \o w \o t :
        p \in {<<>>, <<" ">>, <<"\t", " ">>},
        w \in {<<"s", "e", "l", "e", "c", "t">>, <<"S", "h", "o", "w">>,
               <<"D", "E", "S", "C", "R", "I", "B", "E">>,
               <<"e", "x", "p", "l", "a", "i", "n">>,
               <<"i", "n", "s", "e", "r", "t">>, <<"s", "e", "l", "e", "c", "t", "s">>},
        t \in {<<>>, <<" ", "x">>, <<"\t", "x">>, <<"\t", " ">>, <<"x">>}}

\* positions a..c of the text hold the first space-delimited token of the
\* trimmed text: white space only before a, no space in a..c, and after c a
\* space that is not trailing white space, or nothing but white space
IsFirstToken(text, a, c) ==
    /\ a <= c
    /\ \A i \in 1..(a - 1) : isspace(text[i])
    /\ ~isspace(text[a])
    /\ \A i \in a..c : text[i] # " "
    /\ \/ /\ c < Len(text)
          /\ text[c + 1] = " "
          /\ \E i \in (c + 2)..Len(text) : ~isspace(text[i])
       \/ /\ ~isspace(text[c])
          /\ \A i \in (c + 1)..Len(text) : isspace(text[i])

\* the first space-delimited token of the trimmed, lower-cased text is
\* select, show, describe or explain
FirstTokenIsKeyword(text) ==
    \E a \in 1..Len(text), c \in 1..Len(text) :
        /\ IsFirstToken(text, a, c)
        /\ [i \in 1..(c - a + 1) |-> tolower(text[a + i - 1])] \in Keywords

\* the rule for the texts of the executor's specification
rule_of == [f \in Formats |-> FirstTokenIsKeyword(Chars(f))]

\* the flag database.cpp:486-487 computes agrees with the rule on every text
rule_on_texts == \A text \in Texts : first_keyword(text) <=> FirstTokenIsKeyword(text)

\* C30: the flag database.cpp:486-487 computes is true exactly for the texts
\* whose first space-delimited token, trimmed and lower-cased, is select,
\* show, describe or explain; every entry of the statement cache holds that
\* flag of its text, and it is the flag a call that executes the entry reads.
C30_ExpectsResults ==
    /\ rule_on_texts
    /\ \A e \in cached_queries : e.expects_results <=> rule_of[e.format]
    /\ \A t \in AppThreads :
           pc[t] = "execute" =>
               (Entry(cached_queries, call[t].format).expects_results
                    <=> rule_of[call[t].format])

\* C30, its case: a later call of a text that yields rows is about to execute
\* the entry the first call inserted
C30_Witness ==
    \E t \in AppThreads :
        /\ pc[t] = "execute"
        /\ call[t].format = "SELECT"
        /\ okCalls["SELECT"] > 0
        /\ prepares["SELECT"] = 1
        /\ Entry(cached_queries, "SELECT").expects_results

\* C31: whenever the pending-transaction flag is true and the worker is not
\* inside the transaction wrapper, a non-empty wrapper thunk is stored for the
\* worker to run (the reset of the stored thunk at database.cpp:279 never
\* discards the thunk of a transaction accepted in the meantime)
C31_ThunkStoredWhilePending ==
    (transaction_in_progress /\ ~InWrapper) => transaction_function # NoThunk

\* C32: the worker is never inside the wait loop of the transaction gate on
\* behalf of a dequeued entry or a callback: no reachable state has the flag
\* true, the worker's holder flag false and the worker at the gate outside a
\* closure
C32_WorkerNeverAtGate ==
    ~(/\ transaction_in_progress
      /\ ~holds_transaction_lock[Worker]
      /\ pc[Worker] = "gate"
      /\ ctx = "entry")

\* C33: no thread tries to lock db_mutex while it holds it: no thread that
\* took the lock at database.cpp:420 reaches the lock_guard of db::close
\* (database.cpp:356) with the lock still held
C33_NoRelock ==
    \A t \in Threads : ~(pc[t] = "close_lock" /\ db_mutex = t)


\* C35: the result of a failing execution is stored like any other: a call
\* that directly follows a call whose execution failed, has the same key and
\* is made before the expiry returns the stored result with no rows and does
\* not execute the statement
C35_FailureIsCached ==
    [][\A t \in AppThreads :
          ( /\ pc[t] \in {"in_find", "in_emplace"} /\ pc'[t] = "idle"
            /\ ccall[t].prev # NoNode
            /\ ccall[t].prev.results = NoRows
            /\ ccall[t].prev.key = ccall[t].key
            /\ ccall[t].now < ccall[t].prev.expiry ) =>
              /\ cret'[t].runs = 0
              /\ cret'[t].results = NoRows]_vars

\* C36: a db::transaction call made by a running closure reports the conflict
\* and changes neither the flag, the stored wrapper nor the queue; the wrapper
\* takes the exception as the closure's failure, sends ROLLBACK and not
\* COMMIT, and the flag, true until then, is cleared once, by the statement
\* that ends the wrapper
C36_NestedCallRollsBack ==
    [][ /\ ( pc[Worker] = "closure" /\ pc'[Worker] \in {"thrown", "t_store"} ) =>
              /\ pc'[Worker] = "thrown"
              /\ UNCHANGED <<transaction_in_progress, transaction_function,
                             sql_query_queue, arg>>
        /\ ( pc[Worker] = "thrown" /\ pc'[Worker] # "thrown" ) =>
              /\ pc'[Worker] = "end_lock"
              /\ outcome' = "throw"
              /\ transaction_in_progress /\ transaction_in_progress'
        /\ ( outcome = "throw" /\ pc[Worker] = "end_exec" /\ pc'[Worker] # "end_exec" ) =>
              /\ pc'[Worker] = "clear"
              /\ txlog'[Len(txlog')] = "ROLLBACK"
              /\ transaction_in_progress /\ transaction_in_progress'
        /\ ( outcome = "throw" /\ pc[Worker] = "clear" /\ pc'[Worker] # "clear" ) =>
              /\ pc'[Worker] = "reset"
              /\ transaction_in_progress /\ ~transaction_in_progress'
              /\ finished[running.id] = 0 /\ finished'[running.id] = 1 ]_vars

\* the nested call has thrown and the wrapper is about to catch
C36_Witness ==
    /\ pc[Worker] = "thrown"
    /\ holds_transaction_lock[Worker]
    /\ transaction_in_progress

\* C34: a call with a lifetime whose lookup finds an unexpired node returns
\* from there, whatever the flag and the owner of db_mutex are: its next step
\* can be taken, gives back the stored rows without running the statement, and
\* leaves query_total, last_error, rows_affected, cached_queries,
\* cached_query_res, db_mutex and the transaction flags as they were.  A step
\* in which the process dies of a data race is left out.
C34_HitLeavesAllAlone ==
    [][\A t \in AppThreads :
          LET f == find(cached_query_res, ccall[t].key) IN
          ( /\ pc[t] = "in_find"
            /\ f # NoNode
            /\ ccall[t].now < f.expiry ) =>
              /\ ENABLED find_end(t, "go on")
              /\ pc'[t] \notin {pc[t], "crashed"} =>
                    /\ pc'[t] = "idle"
                    /\ cret'[t] = [done |-> TRUE, results |-> f.results,
                                   runs |-> 0, hit |-> TRUE]
                    /\ UNCHANGED <<query_total, last_error, rows_affected,
                                   cached_queries, cached_query_res, db_mutex,
                                   transaction_in_progress, holds_transaction_lock>>]_vars

\* a lookup is about to return an unexpired node while a transaction is
\* pending, the caller is not its holder and the worker owns db_mutex
C34_Witness ==
    /\ pc[CacheCaller] = "in_find"
    /\ find(cached_query_res, ccall[CacheCaller].key) # NoNode
    /\ ccall[CacheCaller].now < find(cached_query_res, ccall[CacheCaller].key).expiry
    /\ transaction_in_progress
    /\ ~holds_transaction_lock[CacheCaller]
    /\ db_mutex = Worker

====
